---- MODULE Spec2Model ----
(***************************************************************************)
(* A model of libsnowflakeclient/lib/snowflake_client.c: the connection    *)
(* (attributes, authentication, credential purge), the statement           *)
(* (prepare, bind, execute), the result cursor (fetch, affected_rows) and  *)
(* the error slots (clear, set, propagate).                                *)
(*                                                                         *)
(* C strings are byte sequences that end with the terminator 0; a char*    *)
(* field is a record [nonnull, buf].  Error messages live in a small heap  *)
(* so that two error slots pointing at the same buffer can be told from    *)
(* two slots holding equal text.                                           *)
(***************************************************************************)
EXTENDS Integers, Sequences, FiniteSets, TLC

VARIABLES conn, stmt, heap, call, fault, build, ghost, hist, threads

vars == <<conn, stmt, heap, call, fault, build, ghost, hist, threads>>

----------------------------------------------------------------------------
(* Bounds of the model. *)

\* columns of a response's rowtype
MaxCols == 2
\* rows of a response's rowset
MaxRows == 2
\* highest 1-based index the caller binds in the statement specification
MaxIdx == 2
\* highest 1-based input index the caller binds in the binding specification
MaxParamIdx == 5
\* capacity (max_length) the caller gives a string output buffer
OutCap == 2
\* statements created on the connection over a run
MaxStmts == 3

----------------------------------------------------------------------------
(* C strings. *)

CNull == [nonnull |-> FALSE, buf |-> <<>>]

CStr(chars) == [nonnull |-> TRUE, buf |-> chars \o <<0>>]

RECURSIVE strlenFrom(_, _)
strlenFrom(buf, i) ==
    IF i > Len(buf) \/ buf[i] = 0 THEN 0 ELSE 1 + strlenFrom(buf, i + 1)

strlen(buf) == strlenFrom(buf, 1)

\* the characters of a C string, without the terminator
Chars(p) == SubSeq(p.buf, 1, strlen(p.buf))

is_string_empty(p) == (~p.nonnull) \/ p.buf[1] = 0

\* SF_FREE(*var); if (str) { calloc(strlen + 1); strncpy(.., strlen + 1) }
alloc_buffer_and_copy(str) ==
    IF str.nonnull THEN CStr(Chars(str)) ELSE CNull

Zeros(n) == [i \in 1..n |-> 0]

\* a release that leaves the bytes as they are
WipeSkipped(buf) == buf

\* memset(p, 0, strlen(p) + 1)
Wipe(buf) == Zeros(strlen(buf) + 1) \o SubSeq(buf, strlen(buf) + 2, Len(buf))

RECURSIVE ParseDigits(_, _, _)
\* the value of the longest run of decimal digits ('0' = 48 .. '9' = 57) of s from i
ParseDigits(s, i, acc) ==
    IF i <= Len(s) /\ s[i] >= 48 /\ s[i] <= 57
    THEN ParseDigits(s, i + 1, acc * 10 + (s[i] - 48))
    ELSE acc

\* strtoll(s, NULL, 10): an optional sign ('-' = 45, '+' = 43), then digits;
\* 0 when no digits follow
strtoll(s) ==
    IF Len(s) >= 1 /\ s[1] = 45 THEN 0 - ParseDigits(s, 2, 0)
    ELSE IF Len(s) >= 1 /\ s[1] = 43 THEN ParseDigits(s, 2, 0)
    ELSE ParseDigits(s, 1, 0)

\* atoi(s)
atoi(s) == strtoll(s)

----------------------------------------------------------------------------
(* Status and error codes (the source spells them SF_STATUS_..., SF_ERROR_...; *)
(* a TLA+ identifier cannot begin with SF_).                                   *)

STATUS_SUCCESS == "SF_STATUS_SUCCESS"
STATUS_ERROR == "SF_STATUS_ERROR"
STATUS_EOL == "SF_STATUS_EOL"
\* what a call that faults (a NULL dereference) leaves instead of a status
NO_RETURN == "fault"

ERROR_NONE == 0
ERROR_BAD_JSON == 240001
ERROR_BAD_CONNECTION_PARAMS == 240005
ERROR_BAD_ATTRIBUTE_TYPE == 240007
\* the code the transport leaves in the error slot when it sets one
ERROR_TRANSPORT == 240012

----------------------------------------------------------------------------
(* The heap of error messages.  A message pointer is 0 (NULL) or the id of *)
(* a buffer; a buffer is live until freed.  Three buffers are enough: each *)
(* of the two error slots owns at most one, and propagate_error allocates  *)
(* its copy while both are live.                                           *)

BufIds == 1..3
NoText == ""

FreeBuf == [live |-> FALSE, text |-> NoText]

EmptyHeap == [b \in BufIds |-> FreeBuf]

\* calloc: the lowest free address
AllocId(h) == CHOOSE b \in BufIds : ~h[b].live /\ \A c \in BufIds : c < b => h[c].live

HeapAlloc(h, text) == [h EXCEPT ![AllocId(h)] = [live |-> TRUE, text |-> text]]

\* SF_FREE(p)
HeapFree(h, p) == IF p = 0 THEN h ELSE [h EXCEPT ![p] = FreeBuf]

\* SF_FREE of a buffer that is not live (a double free): undefined behaviour
BadFree(h, p) == p # 0 /\ ~h[p].live

\* a buffer no error slot points at any more (leaked) cannot be observed: it
\* is dropped from the model's heap
Gc(h, c, s) ==
    [b \in BufIds |->
        IF h[b].live /\ b # c.error.msg /\ (s.handle => b # s.error.msg)
        THEN FreeBuf ELSE h[b]]

NoError == [error_code |-> ERROR_NONE, msg |-> 0]

\* clear_snowflake_error(&x->error): the code back to the sentinel and the
\* owned message released; [e: the slot, h: the heap]
ClearErr(h, e) == [e |-> NoError, h |-> HeapFree(h, e.msg)]

\* SET_SNOWFLAKE_ERROR(&x->error, code, text, ..): releases the old message
\* and duplicates the new one into owned storage
SetErr(h, e, code, text) ==
    LET h1 == HeapFree(h, e.msg)
    IN  [e |-> [error_code |-> code, msg |-> AllocId(h1)], h |-> HeapAlloc(h1, text)]

\* the text an error slot's message pointer reads ("" for NULL)
MsgText(h, e) == IF e.msg = 0 THEN NoText ELSE h[e.msg].text

\* the outcomes of the clear_snowflake_error that opens an operation: a
\* double free either aborts the process or goes unnoticed
ClearCrashes(h, e) == IF BadFree(h, e.msg) THEN {TRUE, FALSE} ELSE {FALSE}

----------------------------------------------------------------------------
(* Optional values: a JSON field that may be absent, a pointer that may be *)
(* NULL.                                                                   *)

None == <<>>
Some(x) == <<x>>
IsSome(o) == Len(o) = 1
Val(o) == o[1]

----------------------------------------------------------------------------
(* The connection. *)

\* snowflake_init()
snowflake_init ==
    [account |-> CNull, user |-> CNull, password |-> CNull, passcode |-> CNull,
     database |-> CNull, token |-> CNull, master_token |-> CNull,
     sequence_counter |-> 0, error |-> NoError]

\* the attribute kinds of snowflake_set_attr that the model tells apart;
\* "SF_CON_APPLICATION" stands for the kinds the switch accepts and ignores,
\* "invalid" for a value outside the enumeration
StringAttrs == {"SF_CON_ACCOUNT", "SF_CON_USER", "SF_CON_PASSWORD", "SF_CON_PASSCODE",
                "SF_CON_DATABASE"}
AttrKinds == StringAttrs \cup {"SF_CON_APPLICATION", "invalid"}

\* the values a caller passes for a string attribute: NULL, "" and "a"
AttrValues == {CNull, CStr(<<>>), CStr(<<97>>)}

\* the field of the connection a string attribute is copied into
set_attr_field(sf, type, value) ==
    CASE type = "SF_CON_ACCOUNT" -> [sf EXCEPT !.account = alloc_buffer_and_copy(value)]
      [] type = "SF_CON_USER" -> [sf EXCEPT !.user = alloc_buffer_and_copy(value)]
      [] type = "SF_CON_PASSWORD" -> [sf EXCEPT !.password = alloc_buffer_and_copy(value)]
      [] type = "SF_CON_PASSCODE" -> [sf EXCEPT !.passcode = alloc_buffer_and_copy(value)]
      [] type = "SF_CON_DATABASE" -> [sf EXCEPT !.database = alloc_buffer_and_copy(value)]
      [] OTHER -> sf

\* snowflake_set_attr without the default label of its switch: a kind
\* outside the enumeration falls through to the successful return
SetAttrWithoutDefault(sf, h, type, value) ==
    LET c == ClearErr(h, sf.error)
    IN  [sf |-> set_attr_field([sf EXCEPT !.error = c.e], type, value), h |-> c.h,
         ret |-> STATUS_SUCCESS]

\* snowflake_set_attr(sf, type, value): [sf, h, ret]
snowflake_set_attr(sf, h, type, value) ==
    LET c == ClearErr(h, sf.error)
        sf1 == [sf EXCEPT !.error = c.e]
    IN  IF type = "invalid"
        THEN LET x == SetErr(c.h, c.e, ERROR_BAD_ATTRIBUTE_TYPE, "Invalid attribute type")
             IN  [sf |-> [sf1 EXCEPT !.error = x.e], h |-> x.h, ret |-> STATUS_ERROR]
        ELSE [sf |-> set_attr_field(sf1, type, value), h |-> c.h, ret |-> STATUS_SUCCESS]

\* what the transport and the server can answer to the authentication
\* request: request() fails (having set an error or not), or a response
\* comes back with or without "success", "message", "code", "token" and
\* "masterToken"
ConnectAnswers ==
    {[ok |-> FALSE, seterr |-> e, success |-> None, message |-> None, code |-> None,
      token |-> FALSE, master |-> FALSE] : e \in BOOLEAN}
    \cup {[ok |-> TRUE, seterr |-> FALSE, success |-> None, message |-> None, code |-> None,
           token |-> FALSE, master |-> FALSE]}
    \cup {[ok |-> TRUE, seterr |-> FALSE, success |-> Some(FALSE), message |-> m, code |-> c,
           token |-> FALSE, master |-> FALSE] :
             m \in {None, Some("Incorrect username or password")},
             c \in {None, Some(<<48>>), Some(<<51, 57, 48>>)}}
    \cup {[ok |-> TRUE, seterr |-> FALSE, success |-> Some(TRUE), message |-> None, code |-> None,
           token |-> t, master |-> m] : t \in BOOLEAN, m \in BOOLEAN}

\* the token strings a successful authentication returns
SessionToken == CStr(<<97>>)
MasterToken == CStr(<<98>>)

\* request(.., &x->error) that failed: the transport may have set an error
request_failed(h, e, a) ==
    IF a.seterr THEN SetErr(h, e, ERROR_TRANSPORT, "transport") ELSE [e |-> e, h |-> h]

\* set_tokens(sf, data, "token", "masterToken", &sf->error): copies the
\* session token, then the master token; stops at the first one missing.
\* [sf, h, ok]
set_tokens(sf, h, a) ==
    IF ~a.token
    THEN LET x == SetErr(h, sf.error, ERROR_BAD_JSON, "No valid token found in response")
         IN  [sf |-> [sf EXCEPT !.error = x.e], h |-> x.h, ok |-> FALSE]
    ELSE IF ~a.master
    THEN LET x == SetErr(h, sf.error, ERROR_BAD_JSON, "No valid master token found in response")
         IN  [sf |-> [sf EXCEPT !.token = SessionToken, !.error = x.e], h |-> x.h, ok |-> FALSE]
    ELSE [sf |-> [sf EXCEPT !.token = SessionToken, !.master_token = MasterToken],
          h |-> h, ok |-> TRUE]

\* a test of the essentials that looks at the user only
MissingUserOnly(sf) == is_string_empty(sf.user)

\* "if (is_string_empty(sf->user) || is_string_empty(sf->account))"
missing_essentials(sf) == is_string_empty(sf.user) \/ is_string_empty(sf.account)

\* snowflake_connect from "Reset error context" to the jump to cleanup:
\* [sf, h, ret, sent]
connect_body(sf, h, a) ==
    LET c == ClearErr(h, sf.error)
        sf1 == [sf EXCEPT !.error = c.e]
        fail(hh, e, code, text, sent) ==
            LET x == SetErr(hh, e, code, text)
            IN  [sf |-> [sf1 EXCEPT !.error = x.e], h |-> x.h, ret |-> STATUS_ERROR,
                 sent |-> sent]
    IN  IF missing_essentials(sf)
        THEN fail(c.h, c.e, ERROR_BAD_CONNECTION_PARAMS,
                  "Missing essential connection parameters. Either user or account (or both) are missing", FALSE)
        ELSE IF ~a.ok
        THEN LET r == request_failed(c.h, c.e, a)
             IN  fail(r.h, r.e, ERROR_BAD_JSON, "No valid JSON response", TRUE)
        ELSE IF ~IsSome(a.success)
        THEN fail(c.h, c.e, ERROR_BAD_JSON, "No valid JSON response", TRUE)
        ELSE IF ~Val(a.success)
        THEN fail(c.h, c.e,
                  IF IsSome(a.code) THEN atoi(Val(a.code)) ELSE 0 - 1,
                  IF IsSome(a.message) THEN Val(a.message) ELSE "Query was not successful",
                  TRUE)
        ELSE LET t == set_tokens(sf1, c.h, a)
             IN  [sf |-> t.sf, h |-> t.h,
                  ret |-> IF t.ok THEN STATUS_SUCCESS ELSE STATUS_ERROR, sent |-> TRUE]

\* the cleanup label of snowflake_connect: what a credential buffer holds
\* when it is released (None for a NULL pointer, which is skipped)
purge(p) == IF p.nonnull THEN Some(Wipe(p.buf)) ELSE None

NothingPurged == [password |-> None, passcode |-> None]

\* the cleanup label of snowflake_connect: the connection afterwards
connect_cleanup(sf) == [sf EXCEPT !.password = CNull, !.passcode = CNull]

\* snowflake_connect(sf) on a non-null connection: [sf, h, ret, sent, purged]
snowflake_connect(sf, h, a) ==
    LET b == connect_body(sf, h, a)
    IN  [sf |-> connect_cleanup(b.sf), h |-> b.h, ret |-> b.ret, sent |-> b.sent,
         purged |-> [password |-> purge(b.sf.password), passcode |-> purge(b.sf.passcode)]]

----------------------------------------------------------------------------
(* The growable indexed collection behind the bindings (ARRAY_LIST): a     *)
(* pointer that may be NULL, entries stored at the index given, and `used` *)
(* the number of entries stored.                                           *)

ALNull == [nonnull |-> FALSE, data |-> <<>>]

array_list_init == [nonnull |-> TRUE, data |-> <<>>]

array_list_set(al, item, idx) ==
    [al EXCEPT !.data = [i \in (DOMAIN al.data) \cup {idx} |->
                            IF i = idx THEN item ELSE al.data[i]]]

\* the entry at idx, None for a slot never set
array_list_get(al, idx) ==
    IF al.nonnull /\ idx \in DOMAIN al.data THEN Some(al.data[idx]) ELSE None

array_list_used(al) == Cardinality(DOMAIN al.data)

----------------------------------------------------------------------------
(* Native kinds, column kinds and the conversions between them. *)

CTypes == {"SF_C_TYPE_INT64", "SF_C_TYPE_STRING"}

ColTypes == {"FIXED", "TEXT"}

\* the native kind set_description records for a column kind
snowflake_to_c_type(t) == IF t = "FIXED" THEN "SF_C_TYPE_INT64" ELSE "SF_C_TYPE_STRING"

\* snowflake_type_to_string(c_type_to_snowflake(c_type, ..))
c_type_to_snowflake(c) == IF c = "SF_C_TYPE_INT64" THEN "FIXED" ELSE "TEXT"

RECURSIVE DigitsOf(_)
\* the decimal digits of n >= 0
DigitsOf(n) == IF n < 10 THEN <<48 + n>> ELSE DigitsOf(n \div 10) \o <<48 + (n % 10)>>

\* value_to_string(input->value, input->len, input->c_type): an integer in
\* decimal, a string as it is
value_to_string(b) ==
    IF b.c_type = "SF_C_TYPE_INT64"
    THEN (IF b.ival < 0 THEN <<45>> \o DigitsOf(0 - b.ival) ELSE DigitsOf(b.ival))
    ELSE SubSeq(b.sval, 1, b.len)

\* set_description(rowtype): one descriptor per element of the rowtype array
set_description(rowtype) ==
    [i \in 1..Len(rowtype) |->
        [idx |-> i, type |-> rowtype[i], c_type |-> snowflake_to_c_type(rowtype[i])]]

\* strncpy(dst, src, n) into a buffer of n bytes: the first n characters of
\* src, padded with zero bytes when src is shorter
strncpy(src, n) ==
    [i \in 1..n |-> IF i <= Len(src) THEN src[i] ELSE 0]

\* _SF_STMT_TYPE_DML and the five statement kinds derived from it
STMT_TYPE_DML == 12288
DmlTypeIds == {STMT_TYPE_DML + k * 256 : k \in 0..5}

\* a detection by range: everything from _SF_STMT_TYPE_DML up to
\* _SF_STMT_TYPE_MULTI_TABLE_INSERT
DetectByRange(stmt_type_id) ==
    stmt_type_id >= STMT_TYPE_DML /\ stmt_type_id <= STMT_TYPE_DML + 5 * 256

\* detect_stmt_type(stmt_type_id): the switch over the six identifiers
detect_stmt_type(stmt_type_id) == stmt_type_id \in DmlTypeIds

----------------------------------------------------------------------------
(* The statement. *)

\* a pointer to a cJSON array / a descriptor array: NULL or the items
PNull == [nonnull |-> FALSE, items |-> <<>>]
PArr(items) == [nonnull |-> TRUE, items |-> items]

\* cJSON_GetArraySize: 0 for NULL
cJSON_GetArraySize(a) == IF a.nonnull THEN Len(a.items) ELSE 0

\* no statement handle (a NULL SF_STMT pointer)
NoStmt ==
    [handle |-> FALSE, sql_text |-> CNull, sfqid |-> "", params |-> ALNull,
     results |-> ALNull, desc |-> PNull, raw_results |-> PNull,
     total_rowcount |-> 0, total_fieldcount |-> 0, is_dml |-> FALSE,
     sequence_counter |-> 0, error |-> NoError]

\* a reset that leaves the two binding lists in place
ResetKeepsBindings(s) ==
    [s EXCEPT !.error = NoError, !.sfqid = "", !.sql_text = CNull,
              !.raw_results = PNull, !.desc = PNull,
              !.total_rowcount = 0 - 1, !.total_fieldcount = 0 - 1]

\* _snowflake_stmt_reset(sfstmt): everything but is_dml, the sequence number
\* and the connection goes back to its initial value
stmt_reset(s) ==
    [s EXCEPT !.error = NoError, !.sfqid = "", !.sql_text = CNull,
              !.raw_results = PNull, !.params = ALNull, !.results = ALNull,
              !.desc = PNull, !.total_rowcount = 0 - 1, !.total_fieldcount = 0 - 1]

\* snowflake_stmt with sf->sequence_counter++ in place of the pre-increment
StmtPostIncrement(sf) ==
    [s |-> [stmt_reset([NoStmt EXCEPT !.handle = TRUE])
               EXCEPT !.sequence_counter = sf.sequence_counter],
     sf |-> [sf EXCEPT !.sequence_counter = sf.sequence_counter + 1]]

\* snowflake_stmt(sf) on a non-null connection: [s, sf]
snowflake_stmt(sf) ==
    LET n == sf.sequence_counter + 1
    IN  [s |-> [stmt_reset([NoStmt EXCEPT !.handle = TRUE]) EXCEPT !.sequence_counter = n],
         sf |-> [sf EXCEPT !.sequence_counter = n]]

\* snowflake_bind_param(sfstmt, sfbind): [s, h, ret]
snowflake_bind_param(s, h, idx, sfbind) ==
    LET c == ClearErr(h, s.error)
        al == IF s.params.nonnull THEN s.params ELSE array_list_init
    IN  [s |-> [s EXCEPT !.error = c.e, !.params = array_list_set(al, sfbind, idx)],
         h |-> c.h, ret |-> STATUS_SUCCESS]

\* snowflake_bind_result(sfstmt, sfbind): [s, h, ret]
snowflake_bind_result(s, h, idx, sfbind) ==
    LET c == ClearErr(h, s.error)
        al == IF s.results.nonnull THEN s.results ELSE array_list_init
    IN  [s |-> [s EXCEPT !.error = c.e, !.results = array_list_set(al, sfbind, idx)],
         h |-> c.h, ret |-> STATUS_SUCCESS]

\* a prepare that gives up while the statement still carries an error
PrepareRefusesAfterError(s, h, command, command_size) ==
    IF s.error.error_code # ERROR_NONE \/ ~IsSome(command)
    THEN [s |-> s, h |-> h, ret |-> STATUS_ERROR]
    ELSE [s |-> [stmt_reset(s) EXCEPT !.sql_text = CStr(Val(command))],
          h |-> h, ret |-> STATUS_SUCCESS]

\* snowflake_prepare(sfstmt, command, command_size); command is None for a
\* NULL pointer, command_size 0 means "use strlen": [s, h, ret]
snowflake_prepare(s, h, command, command_size) ==
    LET c == ClearErr(h, s.error)
    IN  IF ~IsSome(command)
        THEN [s |-> [s EXCEPT !.error = c.e], h |-> c.h, ret |-> STATUS_ERROR]
        ELSE LET n == IF command_size = 0 THEN Len(Val(command)) ELSE command_size
             IN  [s |-> [stmt_reset([s EXCEPT !.error = c.e])
                            EXCEPT !.sql_text = CStr(SubSeq(Val(command), 1, n))],
                  h |-> c.h, ret |-> STATUS_SUCCESS]

----------------------------------------------------------------------------
(* snowflake_execute. *)

\* the loop that serialises the input bindings: it runs i = 0 .. used - 1 and
\* reads the entry at i + 1.  TRUE when one of those entries is NULL, which
\* the loop dereferences.
bindings_fault(params) ==
    \E k \in 1..array_list_used(params) : ~IsSome(array_list_get(params, k))

\* the "bindings" object of the request: None when no bindings object is
\* built, else the entries by key
build_bindings(params) ==
    IF params.nonnull /\ array_list_used(params) > 0
    THEN Some([k \in 1..array_list_used(params) |->
                 [type |-> c_type_to_snowflake(Val(array_list_get(params, k)).c_type),
                  value |-> value_to_string(Val(array_list_get(params, k)))]])
    ELSE None

\* create_query_json_body(sql_text, sequence_counter) plus the bindings
query_body(s, bindings) ==
    [sqlText |-> s.sql_text, sequenceId |-> s.sequence_counter, bindings |-> bindings]

NoBody == [sqlText |-> CNull, sequenceId |-> 0, bindings |-> None]

\* a row count that is always the size of the buffered rowset
CountBufferedOnly(a, raw_results) == cJSON_GetArraySize(raw_results)

\* "if (json_copy_int(&sfstmt->total_rowcount, data, "total"))": the total
\* of the response, or the size of the buffered rowset when it has none
response_total(a, raw_results) ==
    IF IsSome(a.total) THEN Val(a.total) ELSE cJSON_GetArraySize(raw_results)

\* the branch of snowflake_execute for a response with "success": true.
\* [s, sf, h, ret]
execute_success(s, sf, h, a) ==
    LET sf1 == IF IsSome(a.db)
               THEN [sf EXCEPT !.database = alloc_buffer_and_copy(Val(a.db))] ELSE sf
        s1 == [s EXCEPT !.is_dml = IF IsSome(a.stmtType)
                                   THEN detect_stmt_type(Val(a.stmtType)) ELSE FALSE]
        s2 == IF IsSome(a.rowtype)
              THEN [s1 EXCEPT !.total_fieldcount = Len(Val(a.rowtype)),
                              !.desc = PArr(set_description(Val(a.rowtype)))]
              ELSE s1
    IN  IF ~IsSome(a.rowset)
        THEN LET x == SetErr(h, s2.error, ERROR_BAD_JSON, "Missing rowset from response. No results found.")
             IN  [s |-> [s2 EXCEPT !.error = x.e], sf |-> sf1, h |-> x.h,
                  ret |-> STATUS_ERROR]
        ELSE LET s3 == [s2 EXCEPT !.raw_results = PArr(Val(a.rowset))]
             IN  [s |-> [s3 EXCEPT !.total_rowcount = response_total(a, s3.raw_results)],
                  sf |-> sf1, h |-> h, ret |-> STATUS_SUCCESS]

\* the status snowflake_execute returns when request() reports failure: the
\* else branch only logs and falls through to ret = SF_STATUS_SUCCESS
execute_status_no_response == STATUS_SUCCESS

\* snowflake_execute after the bindings loop, once the tokens are known to
\* be there: request() and the reading of the response.  [s, sf, h, ret]
execute_request(s, sf, h, a) ==
    IF ~a.ok
    THEN LET r == request_failed(h, s.error, a)
         IN  [s |-> [s EXCEPT !.error = r.e], sf |-> sf, h |-> r.h,
              ret |-> execute_status_no_response]
    ELSE LET s1 == IF IsSome(a.queryId) THEN [s EXCEPT !.sfqid = Val(a.queryId)] ELSE s
         IN  IF IsSome(a.success) /\ Val(a.success)
             THEN execute_success(s1, sf, h, a)
             ELSE LET x == IF ~IsSome(a.success)
                           THEN SetErr(h, s1.error, ERROR_BAD_JSON, "Success code")
                           ELSE SetErr(h, s1.error,
                                       IF IsSome(a.code) THEN atoi(Val(a.code)) ELSE 0 - 1,
                                       IF IsSome(a.message) THEN Val(a.message)
                                       ELSE "Query was not successful")
                  IN  [s |-> [s1 EXCEPT !.error = x.e], sf |-> sf, h |-> x.h,
                       ret |-> STATUS_ERROR]

\* snowflake_execute without the test of the two tokens before the body is
\* created
ExecuteSkipsTokenCheck(s, sf, h, a) ==
    LET c == ClearErr(h, s.error)
        s0 == [s EXCEPT !.error = c.e]
    IN  IF s.params.nonnull /\ bindings_fault(s.params)
        THEN [s |-> s0, sf |-> sf, h |-> c.h, ret |-> NO_RETURN, sent |-> FALSE,
              body |-> NoBody, fault |-> TRUE]
        ELSE LET r == execute_request(s0, sf, c.h, a)
             IN  [s |-> r.s, sf |-> r.sf, h |-> r.h, ret |-> r.ret, sent |-> TRUE,
                  body |-> query_body(s0, build_bindings(s.params)), fault |-> FALSE]

\* snowflake_execute(sfstmt) on a non-null statement:
\* [s, sf, h, ret, sent, body, fault]
snowflake_execute(s, sf, h, a) ==
    LET c == ClearErr(h, s.error)
        s0 == [s EXCEPT !.error = c.e]
    IN  IF s.params.nonnull /\ bindings_fault(s.params)
        THEN [s |-> s0, sf |-> sf, h |-> c.h, ret |-> NO_RETURN, sent |-> FALSE,
              body |-> NoBody, fault |-> TRUE]
        ELSE IF is_string_empty(sf.master_token) \/ is_string_empty(sf.token)
        THEN LET x == SetErr(c.h, c.e, ERROR_BAD_CONNECTION_PARAMS,
                             "Missing session or master token. Try running snowflake_connect.")
             IN  [s |-> [s0 EXCEPT !.error = x.e], sf |-> sf, h |-> x.h,
                  ret |-> STATUS_ERROR, sent |-> FALSE, body |-> NoBody, fault |-> FALSE]
        ELSE LET r == execute_request(s0, sf, c.h, a)
             IN  [s |-> r.s, sf |-> r.sf, h |-> r.h, ret |-> r.ret, sent |-> TRUE,
                  body |-> query_body(s0, build_bindings(s.params)), fault |-> FALSE]

\* snowflake_query(sfstmt, command, command_size) on a non-null statement:
\* snowflake_prepare, then snowflake_execute unless the prepare failed.
\* [s, sf, h, ret, sent, body, fault]
snowflake_query(s, sf, h, command, command_size, a) ==
    LET c == ClearErr(h, s.error)
        p == snowflake_prepare([s EXCEPT !.error = c.e], c.h, command, command_size)
    IN  IF p.ret # STATUS_SUCCESS
        THEN [s |-> p.s, sf |-> sf, h |-> p.h, ret |-> STATUS_ERROR, sent |-> FALSE,
              body |-> NoBody, fault |-> FALSE]
        ELSE LET e == snowflake_execute(p.s, sf, p.h, a)
             IN  [e EXCEPT !.ret = IF e.ret \in {STATUS_SUCCESS, NO_RETURN} THEN e.ret
                                   ELSE STATUS_ERROR]

----------------------------------------------------------------------------
(* snowflake_fetch. *)

RECURSIVE fetch_validate(_, _)
\* the loop "Check that we can write to the provided result bindings" from
\* field i (0-based) on: "ok", "mismatch" (goto cleanup) or "fault" (desc[i]
\* read through a NULL or too short descriptor array)
fetch_validate(s, i) ==
    IF i >= s.total_fieldcount THEN "ok"
    ELSE LET result == array_list_get(s.results, i + 1)
         IN  IF ~IsSome(result) THEN fetch_validate(s, i + 1)
             ELSE IF ~s.desc.nonnull \/ i + 1 > Len(s.desc.items) THEN "fault"
             ELSE IF Val(result).type # s.desc.items[i + 1].c_type
                     /\ Val(result).type # "SF_C_TYPE_STRING"
             THEN "mismatch"
             ELSE fetch_validate(s, i + 1)

\* what fetch writes into one bound output from the wire string of a field
write_output(result, valuestring) ==
    IF result.type = "SF_C_TYPE_INT64"
    THEN [result EXCEPT !.ival = strtoll(valuestring)]
    ELSE [result EXCEPT !.sval = strncpy(valuestring, result.max_length),
                        !.len = Len(valuestring)]

\* the loop "Write to results": TRUE when a bound output has no field in
\* the row (cJSON_GetArrayItem returns NULL, which is dereferenced)
fetch_write_fault(s, row) ==
    \E i \in 0..(s.total_fieldcount - 1) :
        IsSome(array_list_get(s.results, i + 1)) /\ i + 1 > Len(row)

\* the loop "Write to results": the output bindings afterwards
fetch_write(s, row) ==
    [s.results EXCEPT !.data =
        [k \in DOMAIN s.results.data |->
            IF k <= s.total_fieldcount /\ k <= Len(row)
            THEN write_output(s.results.data[k], row[k])
            ELSE s.results.data[k]]]

\* a detach that takes the last row of the queue in place of the first
DetachBack(a) == PArr(SubSeq(a.items, 1, Len(a.items) - 1))

\* the row queue after cJSON_DetachItemFromArray(raw_results, 0)
DetachFront(a) == PArr(Tail(a.items))

\* the status of a fetch that stops at a mismatched binding
fetch_mismatch_status == STATUS_ERROR

\* a fetch that takes the front row off the queue before it validates the
\* output bindings
FetchValidatesAfterDetach(s, h) ==
    LET c == ClearErr(h, s.error)
        s0 == [s EXCEPT !.error = c.e]
        done(t, ret, f) == [s |-> t, h |-> c.h, ret |-> ret, fault |-> f]
    IN  IF cJSON_GetArraySize(s.raw_results) = 0 THEN done(s0, STATUS_EOL, FALSE)
        ELSE LET s1 == [s0 EXCEPT !.raw_results = DetachFront(s.raw_results)]
                 v == fetch_validate(s0, 0)
             IN  IF v = "fault" THEN done(s0, NO_RETURN, TRUE)
                 ELSE IF v = "mismatch" THEN done(s1, fetch_mismatch_status, FALSE)
                 ELSE IF fetch_write_fault(s0, s.raw_results.items[1])
                 THEN done(s1, NO_RETURN, TRUE)
                 ELSE done([s1 EXCEPT !.results = fetch_write(s0, s.raw_results.items[1])],
                           STATUS_SUCCESS, FALSE)

\* an end of data that resets the lengths of the output bindings
FetchEolTouchesOutputs(s, h) ==
    LET c == ClearErr(h, s.error)
        s0 == [s EXCEPT !.error = c.e]
    IN  [s |-> [s0 EXCEPT !.results =
                   [s.results EXCEPT !.data =
                       [k \in DOMAIN s.results.data |->
                           [s.results.data[k] EXCEPT !.len = 0]]]],
         h |-> c.h, ret |-> STATUS_EOL, fault |-> FALSE]

\* snowflake_fetch on an empty row queue: SF_STATUS_EOL, nothing written
fetch_empty(s, h) ==
    LET c == ClearErr(h, s.error)
    IN  [s |-> [s EXCEPT !.error = c.e], h |-> c.h, ret |-> STATUS_EOL, fault |-> FALSE]

\* snowflake_fetch(sfstmt) on a non-null statement: [s, h, ret, fault]
snowflake_fetch(s, h) ==
    LET c == ClearErr(h, s.error)
        s0 == [s EXCEPT !.error = c.e]
        done(t, ret, f) == [s |-> t, h |-> c.h, ret |-> ret, fault |-> f]
    IN  IF cJSON_GetArraySize(s.raw_results) = 0 THEN fetch_empty(s, h)
        ELSE LET v == fetch_validate(s0, 0)
                 row == s.raw_results.items[1]
                 s1 == [s0 EXCEPT !.raw_results = DetachFront(s.raw_results)]
             IN  IF v = "fault" THEN done(s0, NO_RETURN, TRUE)
                 ELSE IF v = "mismatch" THEN done(s0, fetch_mismatch_status, FALSE)
                 ELSE IF fetch_write_fault(s0, row) THEN done(s1, NO_RETURN, TRUE)
                 ELSE done([s1 EXCEPT !.results = fetch_write(s0, row)],
                           STATUS_SUCCESS, FALSE)

----------------------------------------------------------------------------
(* snowflake_affected_rows. *)

\* the data models a build can have: on LP64 size_t is as wide as int64 and
\* "i < total_fieldcount" compares unsigned; on ILP32 it compares signed
Builds == {"LP64", "ILP32"}

\* the number of fields the summing loop "for (i = 0; i < total_fieldcount;
\* ++i)" adds up, i being a size_t: a negative count compares as a huge
\* unsigned number on LP64, so the loop runs through the whole row and past it
loop_count(b, total_fieldcount, rowlen) ==
    IF total_fieldcount >= 0 THEN total_fieldcount
    ELSE IF b = "LP64" THEN rowlen + 1
    ELSE 0

RECURSIVE SumFields(_, _)
\* the sum of strtoll over the first n fields of the row
SumFields(row, n) ==
    IF n = 0 THEN 0 ELSE SumFields(row, n - 1) + strtoll(row[n])

\* an empty row queue answered with the total row count
EmptyQueueGivesRowcount(s) == s.total_rowcount

\* the branch of snowflake_affected_rows for an empty row queue: ret is
\* still its initial -1
affected_rows_empty(s) == 0 - 1

\* a statement that is not DML answered with the number of rows buffered
NotDmlGivesQueueLength(s) == cJSON_GetArraySize(s.raw_results)

\* the branch of snowflake_affected_rows for a statement that is not DML
affected_rows_not_dml(s) == s.total_rowcount

\* snowflake_affected_rows(sfstmt) on a non-null statement on build b:
\* [s, h, ret (a number), fault]
snowflake_affected_rows(s, h, b) ==
    LET c == ClearErr(h, s.error)
        s0 == [s EXCEPT !.error = c.e]
    IN  IF cJSON_GetArraySize(s.raw_results) = 0
        THEN [s |-> s0, h |-> c.h, ret |-> affected_rows_empty(s), fault |-> FALSE]
        ELSE IF s.is_dml
        THEN LET row == s.raw_results.items[1]
                 s1 == [s0 EXCEPT !.raw_results = DetachFront(s.raw_results)]
                 n == loop_count(b, s.total_fieldcount, Len(row))
             IN  IF n > Len(row)
                 THEN [s |-> s1, h |-> c.h, ret |-> 0, fault |-> TRUE]
                 ELSE [s |-> s1, h |-> c.h, ret |-> SumFields(row, n), fault |-> FALSE]
        ELSE [s |-> s0, h |-> c.h, ret |-> affected_rows_not_dml(s), fault |-> FALSE]

\* snowflake_param_count(sfstmt) on a non-null statement: "return
\* sfstmt->params->used", which reads through params also when it is NULL.
\* [ret (a number), fault]
snowflake_param_count(s) ==
    IF s.params.nonnull THEN [ret |-> array_list_used(s.params), fault |-> FALSE]
    ELSE [ret |-> 0, fault |-> TRUE]

----------------------------------------------------------------------------
(* snowflake_propagate_error. *)

\* snowflake_propagate_error(sf, sfstmt), both non-null: [sf, h, ret]
snowflake_propagate_error(sf, s, h) ==
    LET h1 == IF sf.error.error_code # ERROR_NONE THEN HeapFree(h, sf.error.msg) ELSE h
        copied == s.error
    IN  IF s.error.error_code # ERROR_NONE
        THEN [sf |-> [sf EXCEPT !.error = [copied EXCEPT !.msg = AllocId(h1)]],
              h |-> HeapAlloc(h1, MsgText(h1, s.error)), ret |-> STATUS_SUCCESS]
        ELSE [sf |-> [sf EXCEPT !.error = copied], h |-> h1, ret |-> STATUS_SUCCESS]

----------------------------------------------------------------------------
(* The inputs of the model. *)

\* the wire strings of the fields: "3" and "12x"
Wire3 == <<51>>
Wire12x == <<49, 50, 120>>

\* two rows of each width, which differ in every field
RowA(w) == [i \in 1..w |-> IF i % 2 = 1 THEN Wire3 ELSE Wire12x]
RowB(w) == [i \in 1..w |-> IF i % 2 = 1 THEN Wire12x ELSE Wire3]

\* x, y, x, y, ... of length k
Alternate(x, y, k) == [i \in 1..k |-> IF i % 2 = 1 THEN x ELSE y]

\* the rowsets of a response whose rows have w fields: neighbouring rows
\* differ, so the order of the rows shows
Rowsets(w) == {Alternate(RowA(w), RowB(w), k) : k \in 0..MaxRows}

\* the column kinds of the rowtype arrays of a response
Rowtypes ==
    {Alternate("FIXED", "TEXT", k) : k \in 1..MaxCols}
    \cup {Alternate("TEXT", "FIXED", k) : k \in 1..MaxCols}

\* the statement type identifiers of a response: INSERT and SELECT
StmtTypeIds == {STMT_TYPE_DML + 256, 4096}

\* what the transport and the server can answer to a query request
ExecAnswer(ok, seterr, success, message, code, d, t, rt, rs, n) ==
    [ok |-> ok, seterr |-> seterr, success |-> success,
     queryId |-> IF IsSome(success) THEN Some("qid") ELSE None,
     message |-> message, code |-> code, db |-> d, stmtType |-> t, rowtype |-> rt,
     rowset |-> rs, total |-> n]

\* request() reports failure, having set the statement error or not
ExecFailures ==
    {ExecAnswer(FALSE, e, None, None, None, None, None, None, None, None) : e \in BOOLEAN}

\* a response without "success"
ExecMalformed ==
    {ExecAnswer(TRUE, FALSE, None, None, None, None, None, None, None, None)}

\* "success": false, with no message and code, with code "100", with code "0"
ExecRejections ==
    {ExecAnswer(TRUE, FALSE, Some(FALSE), mc[1], mc[2], None, None, None, None, None) :
        mc \in {<<None, None>>, <<Some("bad sql"), Some(<<49, 48, 48>>)>>,
                <<Some("bad sql"), Some(<<48>>)>>}}

\* a server sends rows as wide as the rowtype it sends with them, and rows
\* of one field when it sends no rowtype
RowsetsFor(rt) == IF IsSome(rt) THEN Rowsets(Len(Val(rt))) ELSE Rowsets(1)

AnyRowtype == {None} \cup {Some(x) : x \in Rowtypes}

\* "success": true, with the database, statement type, rowtype and total
\* drawn from the sets given; absent is {None} when the rowset may be
\* missing and {} when it may not
ExecSuccesses(dbs, types, rowtypes, totals, absent) ==
    UNION {{ExecAnswer(TRUE, FALSE, Some(TRUE), None, None, x[1], x[2], rt, rs, x[3]) :
               x \in dbs \X types \X totals,
               rs \in {Some(r) : r \in RowsetsFor(rt)} \cup absent} :
           rt \in rowtypes}

\* the output bindings a caller registers: an int64 or a string buffer of
\* OutCap bytes, not yet written
OutputBind(type) ==
    [type |-> type, max_length |-> OutCap, ival |-> 0 - 1,
     sval |-> [i \in 1..OutCap |-> 63], len |-> 0]

\* the input bindings a caller registers: the int64 42 or the string "ab"
InputBinds ==
    {[c_type |-> "SF_C_TYPE_INT64", ival |-> 42, sval |-> <<>>, len |-> 8],
     [c_type |-> "SF_C_TYPE_STRING", ival |-> 0, sval |-> <<97, 98>>, len |-> 2]}

\* the SQL text a caller prepares: NULL or "q"
Commands == {None, Some(<<113>>)}

----------------------------------------------------------------------------
(* The state machine.  conn and stmt are the SF_CONNECT and the SF_STMT,   *)
(* heap the error message buffers, call the last public call with what it  *)
(* returned and what it sent, fault whether the process has faulted, build *)
(* the data model of the build, and ghost the front row a fetch refused on *)
(* a kind mismatch, kept while the caller only rebinds outputs and marked  *)
(* delivered by the fetch that then succeeds.  hist records what the calls *)
(* so far have done: whether a snowflake_connect has returned success, how *)
(* many statements were created, how far a statement has come back from a  *)
(* failed call, the rowset last buffered with the rows fetched from it,    *)
(* the response whose rowset was last taken into the row queue, the input  *)
(* and output bindings registered since the statement was created or last  *)
(* prepared, and whether the call just made was a prepare that found       *)
(* bindings of both kinds registered.                                      *)
(* threads holds the two threads that call snowflake_stmt on the shared    *)
(* connection without a lock: where each is in the call, the counter value *)
(* it has loaded, and the sequence number its statement received.          *)

\* a refused front row is waiting for its retry
Refused(g) == IsSome(g) /\ ~Val(g).delivered

\* transport: "unused" when the call made no request, "failed" when request()
\* reported failure, "answered" when it returned a response
\* resp: the answer a snowflake_execute that made its request received;
\* arg: the command passed to snowflake_prepare or snowflake_query, the
\* attribute kind passed to snowflake_set_attr, the index and binding
\* passed to snowflake_bind_param or snowflake_bind_result
NoAnswer == ExecAnswer(FALSE, FALSE, None, None, None, None, None, None, None, None)

Returned(op, ret) ==
    [op |-> op, ret |-> ret, num |-> 0, transport |-> "unused", body |-> NoBody,
     purged |-> NothingPurged, resp |-> NoAnswer, arg |-> None]

Transport(sent, a) == IF ~sent THEN "unused" ELSE IF a.ok THEN "answered" ELSE "failed"

NoCall == Returned("none", STATUS_SUCCESS)

NoHist == [authed |-> FALSE, created |-> 0, recovery |-> "none", served |-> None,
           fetched |-> <<>>, source |-> None, inputs |-> <<>>, outputs |-> {},
           dropped |-> FALSE]

\* how far the statement has come back from a failed execute or fetch:
\* "failed" after the failure, "prepared" after the snowflake_prepare that
\* followed, "executed" after the snowflake_execute that followed that
Recovery(h, cl) ==
    IF cl.op \in {"snowflake_execute", "snowflake_fetch"} /\ cl.ret = STATUS_ERROR
    THEN "failed"
    ELSE IF cl.op = "snowflake_prepare" /\ cl.ret = STATUS_SUCCESS
            /\ h.recovery \in {"failed", "prepared"}
    THEN "prepared"
    ELSE IF cl.op = "snowflake_execute" /\ h.recovery = "prepared" THEN "executed"
    ELSE IF h.recovery = "failed" /\ cl.op \notin {"snowflake_stmt", "snowflake_stmt_term"}
    THEN "failed"
    ELSE "none"

\* the record of the calls after call cl on statement s
Track(h, cl, s) ==
    LET executes == cl.op \in {"snowflake_execute", "snowflake_query"}
        buffered == executes /\ cl.ret = STATUS_SUCCESS /\ cl.transport = "answered"
        created == cl.op \in {"snowflake_stmt", "snowflake_stmt_term"}
        prepared == \/ cl.op = "snowflake_prepare" /\ cl.ret = STATUS_SUCCESS
                    \/ cl.op = "snowflake_query" /\ IsSome(cl.arg)
        keeps == cl.op \in {"snowflake_execute", "snowflake_bind_result",
                            "snowflake_stmt_get_attr"}
                 \/ (cl.op = "snowflake_fetch" /\ cl.ret # STATUS_SUCCESS)
    IN  [authed |-> h.authed \/ (cl.op = "snowflake_connect" /\ cl.ret = STATUS_SUCCESS),
         created |-> IF cl.op = "snowflake_stmt" THEN h.created + 1 ELSE h.created,
         recovery |-> Recovery(h, cl),
         served |-> IF buffered THEN cl.resp.rowset
                    ELSE IF keeps \/ (cl.op = "snowflake_fetch" /\ cl.ret = STATUS_SUCCESS)
                    THEN h.served ELSE None,
         fetched |-> IF buffered THEN <<>>
                     ELSE IF cl.op = "snowflake_fetch" /\ cl.ret = STATUS_SUCCESS
                             /\ IsSome(h.served)
                     THEN Append(h.fetched, s.raw_results.items[1])
                     ELSE IF keeps /\ IsSome(h.served) THEN h.fetched ELSE <<>>,
         source |-> IF /\ executes /\ cl.transport = "answered"
                       /\ cl.resp.success = Some(TRUE) /\ IsSome(cl.resp.rowset)
                    THEN Some(cl.resp)
                    ELSE IF created \/ prepared THEN None
                    ELSE h.source,
         inputs |-> IF created \/ prepared THEN <<>>
                    ELSE IF cl.op = "snowflake_bind_param"
                    THEN [k \in DOMAIN h.inputs \cup {Val(cl.arg).idx} |->
                             IF k = Val(cl.arg).idx THEN Val(cl.arg).bind ELSE h.inputs[k]]
                    ELSE h.inputs,
         outputs |-> IF created \/ prepared THEN {}
                     ELSE IF cl.op = "snowflake_bind_result"
                     THEN h.outputs \cup {Val(cl.arg).idx}
                     ELSE h.outputs,
         dropped |-> prepared /\ DOMAIN h.inputs # {} /\ h.outputs # {}]

\* the state after the operation: leaked message buffers are dropped
Finish(c, s, h, cl, f, g) ==
    /\ hist' = Track(hist, cl, stmt)
    /\ conn' = c
    /\ stmt' = s
    /\ heap' = Gc(h, c, s)
    /\ call' = cl
    /\ fault' = f
    /\ ghost' = g
    /\ UNCHANGED <<build, threads>>

\* the process aborts inside the clear_snowflake_error that opens op
Abort(op) ==
    /\ fault' = TRUE
    /\ call' = Returned(op, NO_RETURN)
    /\ UNCHANGED <<conn, stmt, heap, build, ghost, hist, threads>>

SetAttr(types, values) ==
    /\ ~fault
    /\ \E type \in types, value \in values, crash \in ClearCrashes(heap, conn.error) :
         IF crash THEN Abort("snowflake_set_attr")
         ELSE \E r \in {snowflake_set_attr(conn, heap, type, value)} :
                  Finish(r.sf, stmt, r.h,
                         [Returned("snowflake_set_attr", r.ret) EXCEPT !.arg = Some(type)],
                         FALSE, None)

Connect(answers) ==
    /\ ~fault
    /\ \E a \in answers, crash \in ClearCrashes(heap, conn.error) :
         IF crash THEN Abort("snowflake_connect")
         ELSE \E r \in {snowflake_connect(conn, heap, a)} :
                  Finish(r.sf, stmt, r.h,
                         [Returned("snowflake_connect", r.ret)
                             EXCEPT !.transport = Transport(r.sent, a), !.purged = r.purged],
                         FALSE, None)

StmtNew ==
    /\ ~fault
    /\ ~stmt.handle
    /\ hist.created < MaxStmts
    /\ \E r \in {snowflake_stmt(conn)} :
           Finish(r.sf, r.s, heap, Returned("snowflake_stmt", STATUS_SUCCESS), FALSE, None)

Prepare(commands) ==
    /\ ~fault
    /\ stmt.handle
    /\ \E command \in commands, crash \in ClearCrashes(heap, stmt.error) :
         IF crash THEN Abort("snowflake_prepare")
         ELSE \E command_size \in (IF IsSome(command) THEN {0, Len(Val(command))} ELSE {0}) :
                \E r \in {snowflake_prepare(stmt, heap, command, command_size)} :
                    Finish(conn, r.s, r.h,
                           [Returned("snowflake_prepare", r.ret) EXCEPT !.arg = command],
                           FALSE, None)

BindParam(indices) ==
    /\ ~fault
    /\ stmt.handle
    /\ \E idx \in indices, b \in InputBinds, crash \in ClearCrashes(heap, stmt.error) :
         IF crash THEN Abort("snowflake_bind_param")
         ELSE \E r \in {snowflake_bind_param(stmt, heap, idx, b)} :
                  Finish(conn, r.s, r.h,
                         [Returned("snowflake_bind_param", r.ret)
                             EXCEPT !.arg = Some([idx |-> idx, bind |-> b])],
                         FALSE, None)

BindResult(indices) ==
    /\ ~fault
    /\ stmt.handle
    /\ \E idx \in indices, type \in CTypes, crash \in ClearCrashes(heap, stmt.error) :
         IF crash THEN Abort("snowflake_bind_result")
         ELSE \E r \in {snowflake_bind_result(stmt, heap, idx, OutputBind(type))} :
                  Finish(conn, r.s, r.h,
                         [Returned("snowflake_bind_result", r.ret)
                             EXCEPT !.arg = Some([idx |-> idx, bind |-> OutputBind(type)])],
                         FALSE,
                         IF Refused(ghost) THEN ghost ELSE None)

Execute(answers) ==
    /\ ~fault
    /\ stmt.handle
    /\ \E a \in answers, crash \in ClearCrashes(heap, stmt.error) :
         IF crash THEN Abort("snowflake_execute")
         ELSE \E r \in {snowflake_execute(stmt, conn, heap, a)} :
                  Finish(r.sf, r.s, r.h,
                         [Returned("snowflake_execute", r.ret)
                             EXCEPT !.transport = Transport(r.sent, a), !.body = r.body,
                                    !.resp = IF r.sent THEN a ELSE NoAnswer],
                         r.fault, None)

Query(commands, answers) ==
    /\ ~fault
    /\ stmt.handle
    /\ \E command \in commands, a \in answers, crash \in ClearCrashes(heap, stmt.error) :
         IF crash THEN Abort("snowflake_query")
         ELSE \E r \in {snowflake_query(stmt, conn, heap, command, 0, a)} :
                  Finish(r.sf, r.s, r.h,
                         [Returned("snowflake_query", r.ret)
                             EXCEPT !.transport = Transport(r.sent, a), !.body = r.body,
                                    !.resp = IF r.sent THEN a ELSE NoAnswer,
                                    !.arg = command],
                         r.fault, None)

Fetch ==
    /\ ~fault
    /\ stmt.handle
    /\ \E crash \in ClearCrashes(heap, stmt.error) :
         IF crash THEN Abort("snowflake_fetch")
         ELSE \E r \in {snowflake_fetch(stmt, heap)} :
                  Finish(conn, r.s, r.h, Returned("snowflake_fetch", r.ret), r.fault,
                         IF r.ret = STATUS_ERROR
                         THEN Some([row |-> stmt.raw_results.items[1], delivered |-> FALSE])
                         ELSE IF r.ret = STATUS_SUCCESS /\ Refused(ghost)
                         THEN Some([row |-> Val(ghost).row, delivered |-> TRUE])
                         ELSE None)

AffectedRows ==
    /\ ~fault
    /\ stmt.handle
    /\ \E crash \in ClearCrashes(heap, stmt.error) :
         IF crash THEN Abort("snowflake_affected_rows")
         ELSE \E r \in {snowflake_affected_rows(stmt, heap, build)} :
                  Finish(conn, r.s, r.h,
                         [Returned("snowflake_affected_rows",
                                   IF r.fault THEN NO_RETURN ELSE STATUS_SUCCESS)
                             EXCEPT !.num = r.ret],
                         r.fault, None)

\* snowflake_affected_rows(NULL): clear_snowflake_error(&sfstmt->error) runs
\* before the test of the handle and writes through the null pointer
AffectedRowsNull ==
    /\ ~fault
    /\ ~stmt.handle
    /\ Finish(conn, stmt, heap, Returned("snowflake_affected_rows", NO_RETURN), TRUE, None)

ParamCount ==
    /\ ~fault
    /\ stmt.handle
    /\ \E r \in {snowflake_param_count(stmt)} :
           Finish(conn, stmt, heap,
                  [Returned("snowflake_param_count",
                            IF r.fault THEN NO_RETURN ELSE STATUS_SUCCESS)
                      EXCEPT !.num = r.ret],
                  r.fault, ghost)

PropagateError ==
    /\ ~fault
    /\ stmt.handle
    /\ \E crash \in (IF conn.error.error_code # ERROR_NONE
                     THEN ClearCrashes(heap, conn.error) ELSE {FALSE}) :
         IF crash THEN Abort("snowflake_propagate_error")
         ELSE \E r \in {snowflake_propagate_error(conn, stmt, heap)} :
                  Finish(r.sf, stmt, r.h, Returned("snowflake_propagate_error", r.ret),
                         FALSE, None)

\* snowflake_stmt_term(sfstmt): the statement is reset and released
StmtTerm ==
    /\ ~fault
    /\ stmt.handle
    /\ \E crash \in ClearCrashes(heap, stmt.error) :
         IF crash THEN Abort("snowflake_stmt_term")
         ELSE \E c \in {ClearErr(heap, stmt.error)} :
                  Finish(conn, NoStmt, c.h, Returned("snowflake_stmt_term", STATUS_SUCCESS),
                         FALSE, None)

\* snowflake_stmt_get_attr(sfstmt, type, value) on a non-null statement:
\* returns SF_STATUS_SUCCESS and touches nothing, the error slot included
StmtGetAttr ==
    /\ ~fault
    /\ stmt.handle
    /\ Finish(conn, stmt, heap, Returned("snowflake_stmt_get_attr", STATUS_SUCCESS),
              FALSE, ghost)

----------------------------------------------------------------------------
(* snowflake_stmt called from two threads.  The statement                  *)
(* "sfstmt->sequence_counter = ++sf->sequence_counter" on a plain integer  *)
(* field is a load, an add, a store to the connection and a store to the   *)
(* statement; with no lock the steps of the two threads interleave, and    *)
(* the value stored to the statement is the incremented register or a      *)
(* reload of the field, as the compiler chooses.                           *)

Threads == {1, 2}

NoThreads == [t \in Threads |-> [pc |-> "idle", reg |-> 0, seq |-> 0]]

ThreadsIdle == \A t \in Threads : threads[t].pc = "idle"

ThreadStep(t, pc, next) ==
    /\ ~fault
    /\ threads[t].pc = pc
    /\ threads' = [threads EXCEPT ![t] = next]
    /\ UNCHANGED <<stmt, heap, call, fault, build, ghost, hist>>

\* SF_CALLOC and _snowflake_stmt_reset on the thread's own statement
ThreadAlloc(t) ==
    /\ ThreadStep(t, "idle", [threads[t] EXCEPT !.pc = "load"])
    /\ UNCHANGED conn

\* the load of sf->sequence_counter
ThreadLoad(t) ==
    /\ ThreadStep(t, "load", [threads[t] EXCEPT !.pc = "store",
                                                !.reg = conn.sequence_counter])
    /\ UNCHANGED conn

\* the store of the incremented value to sf->sequence_counter
ThreadStore(t) ==
    /\ ThreadStep(t, "store", [threads[t] EXCEPT !.pc = "assign"])
    /\ conn' = [conn EXCEPT !.sequence_counter = threads[t].reg + 1]

\* the store to sfstmt->sequence_counter, and the return
ThreadAssign(t) ==
    /\ \E v \in {threads[t].reg + 1, conn.sequence_counter} :
           ThreadStep(t, "assign", [threads[t] EXCEPT !.pc = "done", !.seq = v])
    /\ UNCHANGED conn

----------------------------------------------------------------------------
(* Specifications.  Each starts from a connection the caller has set up    *)
(* and runs the operations of one part of the library with the inputs that *)
(* part reads.                                                             *)

\* snowflake_init() followed by snowflake_set_attr of account, user, password
Configured ==
    [snowflake_init EXCEPT !.account = CStr(<<97>>), !.user = CStr(<<97>>),
                           !.password = CStr(<<112>>)]

\* the answers to the authentication request used with statements: no
\* response, a rejection, a complete success
ConnectAnswersLite ==
    {a \in ConnectAnswers :
        \/ ~a.ok /\ ~a.seterr
        \/ a.success = Some(FALSE) /\ IsSome(a.message) /\ a.code = Some(<<51, 57, 48>>)
        \/ a.success = Some(TRUE) /\ a.token /\ a.master}

\* the connection after a successful snowflake_connect
Connected ==
    snowflake_connect(Configured, EmptyHeap,
                      CHOOSE a \in ConnectAnswers : a.success = Some(TRUE) /\ a.token /\ a.master).sf

InitWith(c, builds) ==
    /\ conn = c
    /\ stmt = NoStmt
    /\ heap = EmptyHeap
    /\ call = NoCall
    /\ fault = FALSE
    /\ build \in builds
    /\ ghost = None
    /\ hist = [NoHist EXCEPT !.authed = (c = Connected)]
    /\ threads = NoThreads

\* the answers the protocol allows: no response, a response without
\* "success", a rejection, and a success with its rowtype and rowset
ProtocolAnswers(types, totals) ==
    ExecFailures \cup ExecMalformed
    \cup {a \in ExecRejections : a.code = Some(<<49, 48, 48>>)}
    \cup ExecSuccesses({None}, types, {Some(x) : x \in Rowtypes}, totals, {})

\* Spec: the statement on a connected session, from creation to the row
\* counts
SpecAnswers ==
    ProtocolAnswers({None} \cup {Some(x) : x \in StmtTypeIds}, {None, Some(7)})

Init == InitWith(Connected, Builds)

Next ==
    \/ StmtNew
    \/ Prepare(Commands)
    \/ Execute(SpecAnswers)
    \/ Fetch
    \/ AffectedRows

Spec == Init /\ [][Next]_vars

\* SpecFetch: the result cursor on a connected session
FetchAnswers == ProtocolAnswers({None}, {None})

InitFetch == InitWith(Connected, {"LP64"})

NextFetch ==
    \/ StmtNew
    \/ BindResult(1..MaxIdx)
    \/ Execute(FetchAnswers)
    \/ Fetch

SpecFetch == InitFetch /\ [][NextFetch]_vars

\* SpecShapes: authentication and execute with every shape of response,
\* also those without rowtype or rowset
ShapeAnswers ==
    ExecFailures \cup ExecMalformed
    \cup {a \in ExecRejections : a.code = Some(<<49, 48, 48>>)}
    \cup ExecSuccesses({None}, {None, Some(STMT_TYPE_DML + 256)}, AnyRowtype, {None}, {None})

InitShapes == InitWith(Configured, {"LP64"})

NextShapes ==
    \/ Connect(ConnectAnswersLite)
    \/ StmtNew
    \/ Prepare({Some(<<113>>)})
    \/ Execute(ShapeAnswers)

SpecShapes == InitShapes /\ [][NextShapes]_vars

\* SpecBind: input bindings and the request they are sent in, before and
\* after authentication
BindAnswers ==
    ExecFailures
    \cup ExecSuccesses({None}, {None}, {Some(<<"FIXED">>)}, {None}, {})

InitBind == InitWith(Configured, {"LP64"})

NextBind ==
    \/ Connect({a \in ConnectAnswersLite : a.success = Some(TRUE)})
    \/ StmtNew
    \/ Prepare({Some(<<113>>)})
    \/ BindParam(1..MaxParamIdx)
    \/ Execute(BindAnswers)

SpecBind == InitBind /\ [][NextBind]_vars

\* SpecErr: the two error slots
ConnectAnswersErr ==
    ConnectAnswersLite
    \cup {a \in ConnectAnswers : a.success = Some(FALSE) /\ IsSome(a.message)
                                  /\ a.code = Some(<<48>>)}

ErrAnswers ==
    ExecFailures \cup ExecMalformed \cup ExecRejections
    \cup {a \in ExecSuccesses({Some(CStr(<<98>>))}, {None}, {Some(<<"FIXED">>)}, {None}, {}) :
            Val(a.rowset) = <<>>}

InitErr == InitWith(Configured, {"LP64"})

NextErr ==
    \/ Connect(ConnectAnswersErr)
    \/ StmtNew
    \/ Prepare({Some(<<113>>)})
    \/ Execute(ErrAnswers)
    \/ PropagateError

SpecErr == InitErr /\ [][NextErr]_vars

\* SpecConn: the attributes of a fresh connection and its authentication
InitConn == InitWith(snowflake_init, {"LP64"})

NextConn ==
    \/ SetAttr(AttrKinds, AttrValues)
    \/ Connect(ConnectAnswers)
    \/ StmtNew

SpecConn == InitConn /\ [][NextConn]_vars

\* SpecLife: one statement through every use and reuse: binding, execute,
\* fetch, row counts, attributes and a new prepare
LifeAnswers ==
    {a \in ExecFailures : a.seterr}
    \cup {a \in ExecRejections : a.code = Some(<<49, 48, 48>>)}
    \cup ExecSuccesses({None}, {None, Some(STMT_TYPE_DML + 256)},
                       {Some(<<"FIXED">>), Some(<<"TEXT">>)}, {None}, {})

InitLife == InitWith(Connected, {"LP64"})

NextLife ==
    \/ StmtNew
    \/ Prepare(Commands)
    \/ BindParam({1})
    \/ BindResult({1})
    \/ Execute(LifeAnswers)
    \/ Fetch
    \/ AffectedRows
    \/ StmtGetAttr

SpecLife == InitLife /\ [][NextLife]_vars

\* SpecAuth: a fresh connection configured, authenticated and used for a
\* statement in any order
AuthAnswers ==
    {a \in ExecFailures : a.seterr}
    \cup {a \in ExecSuccesses({None}, {None}, {Some(<<"FIXED">>)}, {None}, {}) :
            Val(a.rowset) = <<>>}

InitAuth == InitWith(snowflake_init, {"LP64"})

NextAuth ==
    \/ SetAttr({"SF_CON_ACCOUNT", "SF_CON_USER", "invalid"}, {CNull, CStr(<<97>>)})
    \/ Connect(ConnectAnswers)
    \/ StmtNew
    \/ Prepare({Some(<<113>>)})
    \/ Execute(AuthAnswers)

SpecAuth == InitAuth /\ [][NextAuth]_vars

\* SpecSeq: statements created, used and terminated one after another on
\* one connection
InitSeq == InitWith(Configured, {"LP64"})

NextSeq ==
    \/ Connect(ConnectAnswersLite)
    \/ StmtNew
    \/ StmtTerm
    \/ Prepare({Some(<<113>>)})
    \/ BindParam({1})
    \/ Execute(AuthAnswers)
    \/ Fetch

SpecSeq == InitSeq /\ [][NextSeq]_vars

\* SpecDml: execute answered with every statement type identifier of
\* interest: the six DML kinds, their neighbours (0x2fff, 0x3001, 0x3080,
\* 0x35ff, 0x3600), SELECT (0x1000), 0, and no identifier at all
ProbeTypeIds ==
    {12288, 12544, 12800, 13056, 13312, 13568}
    \cup {12287, 12289, 12416, 13823, 13824, 4096, 0}

DmlAnswers ==
    {a \in ExecRejections : a.code = Some(<<49, 48, 48>>)}
    \cup ExecSuccesses({None}, {None} \cup {Some(x) : x \in ProbeTypeIds},
                       {Some(<<"FIXED">>)}, {None}, {})

InitDml == InitWith(Connected, {"LP64"})

NextDml ==
    \/ StmtNew
    \/ Prepare({Some(<<113>>)})
    \/ Execute(DmlAnswers)
    \/ Fetch

SpecDml == InitDml /\ [][NextDml]_vars

\* SpecPrep: bindings registered around prepare, execute, fetch and
\* snowflake_query
PrepAnswers ==
    {a \in ExecRejections : a.code = Some(<<49, 48, 48>>)}
    \cup {a \in ExecSuccesses({None}, {None}, {Some(<<"FIXED">>)}, {None}, {}) :
            Len(Val(a.rowset)) = 1}

InitPrep == InitWith(Connected, {"LP64"})

NextPrep ==
    \/ StmtNew
    \/ Prepare(Commands)
    \/ BindParam(1..2)
    \/ BindResult({1})
    \/ Execute(PrepAnswers)
    \/ Query(Commands, PrepAnswers)
    \/ Fetch

SpecPrep == InitPrep /\ [][NextPrep]_vars

\* SpecAccess: the accessors and operations on statements in every stage,
\* a null statement included
InitAccess == InitWith(Connected, Builds)

NextAccess ==
    \/ StmtNew
    \/ StmtTerm
    \/ Prepare(Commands)
    \/ BindParam(1..2)
    \/ BindResult({1})
    \/ Execute(PrepAnswers)
    \/ Fetch
    \/ AffectedRows
    \/ AffectedRowsNull
    \/ ParamCount

SpecAccess == InitAccess /\ [][NextAccess]_vars

\* SpecThreads: statements created and terminated in sequence, then two
\* threads calling snowflake_stmt on the connection at the same time
InitThreads == InitWith(Connected, {"LP64"})

NextThreads ==
    \/ ThreadsIdle /\ StmtNew
    \/ ThreadsIdle /\ StmtTerm
    \/ ThreadsIdle /\ Prepare({Some(<<113>>)})
    \/ \E t \in Threads : ThreadAlloc(t)
    \/ \E t \in Threads : ThreadLoad(t)
    \/ \E t \in Threads : ThreadStore(t)
    \/ \E t \in Threads : ThreadAssign(t)

SpecThreads == InitThreads /\ [][NextThreads]_vars

----------------------------------------------------------------------------
(* Properties of snowflake_connect. *)

\* the two credentials snowflake_connect holds in memory
Credentials == {"password", "passcode"}

\* C1: whenever snowflake_connect returns, with success or with any failure
\* (missing user or account, transport failure, malformed response, rejected
\* login, missing token), the connection holds no password and no passcode,
\* and every buffer it held was overwritten with zero bytes over its whole
\* length, terminator included, before it was released.
C1_ConnectPurgesCredentials ==
    [][(call'.op = "snowflake_connect" /\ call'.ret # NO_RETURN) =>
          \A f \in Credentials :
              /\ conn'[f] = CNull
              /\ conn[f].nonnull => call'.purged[f] = Some(Zeros(Len(conn[f].buf)))]_vars

\* a login the transport failed has returned, and both credentials were
\* held and purged
C1_Witness ==
    /\ call.op = "snowflake_connect"
    /\ call.ret = STATUS_ERROR
    /\ call.transport = "failed"
    /\ \A f \in Credentials : IsSome(call.purged[f]) /\ conn[f] = CNull

----------------------------------------------------------------------------
(* Properties of snowflake_execute before authentication. *)

TokensMissing(sf) == is_string_empty(sf.token) \/ is_string_empty(sf.master_token)

\* C2: snowflake_execute on a statement whose connection has an empty
\* session token or an empty master token returns SF_STATUS_ERROR, leaves
\* the bad-connection-parameters code in the statement's error slot and
\* sends no request.
C2_ExecuteWithoutTokens ==
    [][(call'.op = "snowflake_execute" /\ TokensMissing(conn)) =>
          /\ call'.ret = STATUS_ERROR
          /\ stmt'.error.error_code = ERROR_BAD_CONNECTION_PARAMS
          /\ call'.transport = "unused"]_vars

----------------------------------------------------------------------------
(* Properties of snowflake_fetch. *)

\* a bound output within the field count whose native kind is neither the
\* column descriptor's nor the string kind
Mismatch(s) ==
    \E k \in 1..s.total_fieldcount :
        /\ k \in DOMAIN s.results.data
        /\ s.results.data[k].type # s.desc.items[k].c_type
        /\ s.results.data[k].type # "SF_C_TYPE_STRING"

\* the fields of the model's rows read as base-10 integers: "3" and "12x"
WireNumber(w) == IF w = <<51>> THEN 3 ELSE 12

Shorter(a, b) == IF a < b THEN a ELSE b

\* output binding b holds the data of the wire string w
Holds(b, w) ==
    IF b.type = "SF_C_TYPE_INT64" THEN b.ival = WireNumber(w)
    ELSE \A i \in 1..Shorter(Len(w), b.max_length) : b.sval[i] = w[i]

\* every output bound within the first n fields holds its field of the row
Delivered(results, row, n) ==
    \A k \in DOMAIN results.data : k <= n => Holds(results.data[k], row[k])

\* C3: a snowflake_fetch that finds a mismatched output binding returns the
\* error status and leaves the row queue as it was (same rows, same order);
\* once the caller has rebound compatible outputs, the next snowflake_fetch
\* succeeds, delivers the data of the front row that was refused and takes
\* that row off the queue.
C3_MismatchKeepsFrontRow ==
    [][call'.op = "snowflake_fetch" =>
          /\ (cJSON_GetArraySize(stmt.raw_results) > 0 /\ Mismatch(stmt)) =>
                 /\ call'.ret = STATUS_ERROR
                 /\ stmt'.raw_results = stmt.raw_results
          /\ (Refused(ghost) /\ ~Mismatch(stmt)) =>
                 /\ call'.ret = STATUS_SUCCESS
                 /\ stmt.raw_results.items[1] = Val(ghost).row
                 /\ Delivered(stmt'.results, Val(ghost).row, stmt.total_fieldcount)
                 /\ stmt'.raw_results.items = Tail(stmt.raw_results.items)]_vars

\* a refused front row has been delivered into a rebound output
C3_Witness ==
    /\ call.op = "snowflake_fetch"
    /\ call.ret = STATUS_SUCCESS
    /\ IsSome(ghost) /\ Val(ghost).delivered
    /\ \E k \in DOMAIN stmt.results.data : k <= stmt.total_fieldcount

\* C4: snowflake_fetch on a statement whose row queue is empty (never
\* executed, an empty rowset, or every row consumed) returns SF_STATUS_EOL
\* and leaves the output bindings, the row queue, the column descriptors and
\* the row and field counts unchanged.
C4_FetchAtEndOfData ==
    [][(call'.op = "snowflake_fetch" /\ cJSON_GetArraySize(stmt.raw_results) = 0) =>
          /\ call'.ret = STATUS_EOL
          /\ stmt'.results = stmt.results
          /\ stmt'.raw_results = stmt.raw_results
          /\ stmt'.desc = stmt.desc
          /\ stmt'.total_rowcount = stmt.total_rowcount
          /\ stmt'.total_fieldcount = stmt.total_fieldcount]_vars

\* end of data after every row was consumed, the outputs still holding the
\* last row
C4_Witness ==
    /\ call.op = "snowflake_fetch"
    /\ call.ret = STATUS_EOL
    /\ stmt.raw_results.nonnull
    /\ \E k \in DOMAIN stmt.results.data :
           stmt.results.data[k].ival # 0 - 1 \/ stmt.results.data[k].len > 0

----------------------------------------------------------------------------
(* Properties of the outcome of snowflake_execute. *)

\* the length of the column-descriptor sequence, 0 when there is none
DescLen(s) == Len(s.desc.items)

\* C5: whenever snowflake_execute returns SF_STATUS_SUCCESS the statement's
\* total field count equals the length of its column-descriptor sequence,
\* for every shape of the response (with or without a rowtype array) and
\* every outcome of the transport call.
C5_FieldCountIsDescLength ==
    (call.op = "snowflake_execute" /\ call.ret = STATUS_SUCCESS) =>
        stmt.total_fieldcount = DescLen(stmt)

\* C6: when the transport call reports failure, snowflake_execute returns
\* SF_STATUS_ERROR, and so does snowflake_connect.
C6_TransportFailureIsError ==
    (call.op \in {"snowflake_connect", "snowflake_execute"} /\ call.transport = "failed") =>
        call.ret = STATUS_ERROR

----------------------------------------------------------------------------
(* Properties of snowflake_affected_rows. *)

RECURSIVE FieldSum(_, _)
\* the first n fields of the row, read as base-10 integers, added up
FieldSum(row, n) == IF n <= 0 THEN 0 ELSE FieldSum(row, n - 1) + WireNumber(row[n])

QueueEmpty(s) == cJSON_GetArraySize(s.raw_results) = 0

\* what both readings of C7 say of a non-empty queue: the sum of the front
\* row's fields comes back and exactly that row leaves the queue
DmlSumsFrontRow ==
    /\ call'.num = FieldSum(stmt.raw_results.items[1], stmt.total_fieldcount)
    /\ stmt'.raw_results.items = Tail(stmt.raw_results.items)

\* C7 as stated: for a statement whose last execute set the DML flag,
\* snowflake_affected_rows returns the sum over all total-field-count fields
\* of the front row and removes exactly that row; on an empty row queue it
\* returns -1 and changes nothing.
C7_AsStated ==
    [][(call'.op = "snowflake_affected_rows" /\ stmt.is_dml) =>
          IF ~QueueEmpty(stmt) THEN DmlSumsFrontRow
          ELSE call'.num = 0 - 1 /\ stmt' = stmt /\ conn' = conn]_vars

\* C7 as amended: as above, but on an empty row queue the call returns -1
\* and changes nothing except the statement's error slot, which it clears.
C7_DmlAffectedRows ==
    [][(call'.op = "snowflake_affected_rows" /\ stmt.is_dml) =>
          IF ~QueueEmpty(stmt) THEN DmlSumsFrontRow
          ELSE /\ call'.num = 0 - 1
               /\ stmt' = [stmt EXCEPT !.error = NoError]
               /\ conn' = conn]_vars

\* the summary row ["3", "12x"] of a DML statement was summed to 15 and
\* taken off the queue
C7_Witness ==
    /\ call.op = "snowflake_affected_rows"
    /\ stmt.is_dml
    /\ call.num = 15
    /\ stmt.total_fieldcount = 2

\* C8 as stated: for a statement whose last execute was not DML,
\* snowflake_affected_rows returns the statement's total row count and
\* leaves the row queue unchanged, also when the row queue is empty.
C8_AsStated ==
    [][(call'.op = "snowflake_affected_rows" /\ ~stmt.is_dml) =>
          /\ call'.num = stmt.total_rowcount
          /\ stmt'.raw_results = stmt.raw_results]_vars

\* C8 as amended: for a statement whose last execute was not DML,
\* snowflake_affected_rows leaves the row queue unchanged; it returns the
\* statement's total row count while at least one row is buffered, and -1
\* when the row queue is empty.
C8_NotDmlAffectedRows ==
    [][(call'.op = "snowflake_affected_rows" /\ ~stmt.is_dml) =>
          /\ stmt'.raw_results = stmt.raw_results
          /\ call'.num = IF QueueEmpty(stmt) THEN 0 - 1 ELSE stmt.total_rowcount]_vars

\* the total the server reported came back for a query with rows buffered,
\* and the rows are still there
C8_Witness ==
    /\ call.op = "snowflake_affected_rows"
    /\ ~stmt.is_dml
    /\ ~QueueEmpty(stmt)
    /\ call.num = 7
    /\ stmt.total_rowcount = 7

----------------------------------------------------------------------------
(* Properties of the input bindings. *)

\* the {type, value} pair the request carries for an input binding: the
\* int64 42 goes out as FIXED "42", the string "ab" as TEXT "ab"
ExpectedEntry(b) ==
    IF b.c_type = "SF_C_TYPE_INT64" THEN [type |-> "FIXED", value |-> <<52, 50>>]
    ELSE [type |-> "TEXT", value |-> <<97, 98>>]

\* one entry per bound index, keyed by that index
ExpectedBindings(params) ==
    IF params.nonnull /\ DOMAIN params.data # {}
    THEN Some([k \in DOMAIN params.data |-> ExpectedEntry(params.data[k])])
    ELSE None

\* C9: snowflake_bind_param with any index at least 1, index 5 as the very
\* first call included, returns SF_STATUS_SUCCESS without the lower indices
\* being bound; a later snowflake_execute on an authenticated connection
\* sends a request whose "bindings" object has exactly one entry per bound
\* index, keyed by that index and holding that binding's type and value.
C9_SparseBindings ==
    [][/\ call'.op = "snowflake_bind_param" =>
              /\ call'.ret = STATUS_SUCCESS
              /\ MaxParamIdx \in DOMAIN stmt'.params.data
                    => stmt'.params.data[MaxParamIdx] \in InputBinds
       /\ (call'.op = "snowflake_execute" /\ ~TokensMissing(conn)) =>
              /\ call'.ret # NO_RETURN
              /\ call'.transport # "unused"
              /\ call'.body.bindings = ExpectedBindings(stmt.params)]_vars

----------------------------------------------------------------------------
(* Properties of snowflake_propagate_error. *)

\* C10: after snowflake_propagate_error the connection's error has the code
\* and the message text of the statement's error, the message being a copy
\* the connection owns and not the statement's buffer, for every error state
\* of the statement, cleared, server failure, and code 0 with a message
\* included.
C10_PropagatedMessageIsOwned ==
    (call.op = "snowflake_propagate_error" /\ call.ret # NO_RETURN) =>
        /\ conn.error.error_code = stmt.error.error_code
        /\ MsgText(heap, conn.error) = MsgText(heap, stmt.error)
        /\ conn.error.msg # 0 => conn.error.msg # stmt.error.msg

----------------------------------------------------------------------------
(* Properties of snowflake_prepare. *)

\* C11: after snowflake_prepare returns success, whatever bind, execute,
\* fetch and affected_rows calls came before, the statement holds the new
\* SQL text and nothing of its earlier use: no input or output bindings, no
\* column descriptors, no buffered rows, no query id, no error, the row and
\* field counts at their initial -1, and the DML flag back to false.
C11_PrepareClearsStatement ==
    (call.op = "snowflake_prepare" /\ call.ret = STATUS_SUCCESS) =>
        /\ Chars(stmt.sql_text) = <<113>>
        /\ stmt.params = ALNull
        /\ stmt.results = ALNull
        /\ stmt.desc = PNull
        /\ stmt.raw_results = PNull
        /\ stmt.sfqid = ""
        /\ stmt.error = NoError
        /\ stmt.total_rowcount = 0 - 1
        /\ stmt.total_fieldcount = 0 - 1
        /\ stmt.is_dml = FALSE

\* a success response with its rowtype and its rowset
WellFormedSuccess(a) ==
    a.ok /\ a.success = Some(TRUE) /\ IsSome(a.rowtype) /\ IsSome(a.rowset)

\* the descriptors are those of the rowtype: one per column, in order, with
\* the column's kind
DescribedBy(s, rowtype) ==
    /\ s.desc.nonnull
    /\ s.total_fieldcount = Len(rowtype)
    /\ Len(s.desc.items) = Len(rowtype)
    /\ \A i \in 1..Len(rowtype) :
           s.desc.items[i].idx = i /\ s.desc.items[i].type = rowtype[i]

\* C12: from any statement state reached after a failed snowflake_execute or
\* snowflake_fetch, a snowflake_prepare with non-null SQL text returns
\* success, and the snowflake_execute that follows it and receives a
\* well-formed success response returns success and buffers exactly the rows
\* and the descriptors of that response.
C12_UsableAfterFailure ==
    [][/\ (call'.op = "snowflake_prepare" /\ hist.recovery = "failed" /\ IsSome(call'.arg)) =>
              call'.ret = STATUS_SUCCESS
       /\ (call'.op = "snowflake_execute" /\ hist.recovery = "prepared"
              /\ call'.transport = "answered" /\ WellFormedSuccess(call'.resp)) =>
              /\ call'.ret = STATUS_SUCCESS
              /\ stmt'.raw_results = PArr(Val(call'.resp.rowset))
              /\ DescribedBy(stmt', Val(call'.resp.rowtype))]_vars

\* rows are buffered by the execute that followed the prepare that followed
\* a failed call
C12_Witness ==
    /\ hist.recovery = "executed"
    /\ call.op = "snowflake_execute"
    /\ call.ret = STATUS_SUCCESS
    /\ WellFormedSuccess(call.resp)
    /\ cJSON_GetArraySize(stmt.raw_results) > 0

----------------------------------------------------------------------------
(* Properties of snowflake_set_attr. *)

\* the connection without its error slot
Attributes(sf) == [sf EXCEPT !.error = NoError]

\* C13: snowflake_set_attr with a kind outside the enumeration returns
\* STATUS_ERROR, sets the invalid-attribute-type code on the connection, and
\* leaves every attribute, both tokens and the sequence counter as they were
C13_InvalidKindRefused ==
    [][(call'.op = "snowflake_set_attr" /\ call'.arg = Some("invalid")) =>
          /\ call'.ret = STATUS_ERROR
          /\ conn'.error.error_code = ERROR_BAD_ATTRIBUTE_TYPE
          /\ Attributes(conn') = Attributes(conn)]_vars

\* an authenticated connection with attributes set and a statement created
\* has just refused an invalid kind
C13_Witness ==
    /\ call.op = "snowflake_set_attr" /\ call.arg = Some("invalid")
    /\ call.ret = STATUS_ERROR
    /\ conn.account.nonnull /\ conn.database.nonnull
    /\ conn.token.nonnull /\ conn.master_token.nonnull
    /\ conn.sequence_counter > 0

----------------------------------------------------------------------------
(* Properties of the error slots. *)

\* the error slot of the object the last call was made on
SlotOf(op) == IF op \in {"snowflake_connect", "snowflake_set_attr"} THEN conn.error
              ELSE stmt.error

\* C14: whenever snowflake_connect, snowflake_set_attr, snowflake_prepare,
\* snowflake_execute or snowflake_fetch on a non-null handle returns failure,
\* the error slot of that object holds a set error
C14_FailureSetsError ==
    (/\ call.op \in {"snowflake_connect", "snowflake_set_attr", "snowflake_prepare",
                     "snowflake_execute", "snowflake_fetch"}
     /\ call.ret = STATUS_ERROR)
        => SlotOf(call.op).error_code # ERROR_NONE

----------------------------------------------------------------------------
(* Properties of the session tokens. *)

\* a string pointer that is neither NULL nor ""
NonEmpty(p) == p.nonnull /\ p.buf[1] # 0

\* C15: the session token and the master token are both non-empty only if
\* an earlier snowflake_connect returned success, and snowflake_execute
\* makes its request only after a successful snowflake_connect
C15_TokensOnlyAfterConnect ==
    /\ (NonEmpty(conn.token) /\ NonEmpty(conn.master_token)) => hist.authed
    /\ (call.op = "snowflake_execute" /\ call.transport # "unused") => hist.authed

\* an execute that made its request on a connection whose latest
\* snowflake_connect failed after an earlier one had succeeded
C15_Witness ==
    /\ call.op = "snowflake_execute" /\ call.transport = "answered"
    /\ call.ret = STATUS_SUCCESS
    /\ conn.error.error_code # ERROR_NONE
    /\ hist.authed

----------------------------------------------------------------------------
(* Properties of the sequence numbers. *)

\* C16: the connection's counter equals the number of statements created
\* so far (it starts at 0, grows by 1 per snowflake_stmt and is changed by
\* nothing else), the statement created k-th carries the number k for as
\* long as it lives, and that is the number its snowflake_execute sends
C16_SequenceNumbers ==
    /\ conn.sequence_counter = hist.created
    /\ stmt.handle => stmt.sequence_counter = hist.created
    /\ (call.op = "snowflake_execute" /\ call.transport # "unused")
           => call.body.sequenceId = hist.created

\* the second statement of the connection, created after the first was
\* terminated, has made its request
C16_Witness ==
    /\ call.op = "snowflake_execute" /\ call.transport = "answered"
    /\ hist.created = 2
    /\ call.body.sequenceId = 2
    /\ stmt.sql_text.nonnull

----------------------------------------------------------------------------
(* Properties of the result cursor. *)

\* the rows of the response last buffered, and how many of them the
\* successful fetches since have taken
ServedRows == Val(hist.served)
TakenRows == Len(hist.fetched)

\* C17: after an execute that buffered the N rows of its response, as long
\* as the output bindings pass validation, the n-th successful
\* snowflake_fetch is the n-th call that finds rows left, it delivers the
\* n-th row of the response rowset into the outputs bound within the field
\* count and touches no other output and nothing else of the result; once N
\* rows were taken every snowflake_fetch returns SF_STATUS_EOL and writes
\* nothing, until the next execute
C17_FetchWalksRowset ==
    [][(call'.op = "snowflake_fetch" /\ IsSome(hist.served) /\ ~Mismatch(stmt)) =>
          /\ TakenRows < Len(ServedRows) =>
                 /\ call'.ret = STATUS_SUCCESS
                 /\ Len(hist'.fetched) = TakenRows + 1
                 /\ Delivered(stmt'.results, ServedRows[TakenRows + 1],
                              stmt.total_fieldcount)
                 /\ DOMAIN stmt'.results.data = DOMAIN stmt.results.data
                 /\ \A k \in DOMAIN stmt.results.data :
                        k > stmt.total_fieldcount =>
                            stmt'.results.data[k] = stmt.results.data[k]
                 /\ stmt'.desc = stmt.desc
                 /\ stmt'.total_fieldcount = stmt.total_fieldcount
          /\ TakenRows >= Len(ServedRows) =>
                 /\ call'.ret = STATUS_EOL
                 /\ stmt'.results = stmt.results
                 /\ hist'.fetched = hist.fetched]_vars

\* end of data after both rows of a two-column response were fetched in
\* order, one column bound and the other skipped
C17_Witness ==
    /\ call.op = "snowflake_fetch" /\ call.ret = STATUS_EOL
    /\ IsSome(hist.served)
    /\ Len(ServedRows) = 2 /\ hist.fetched = ServedRows
    /\ stmt.total_fieldcount = 2
    /\ \E k \in 1..2 : k \in DOMAIN stmt.results.data /\ (3 - k) \notin DOMAIN stmt.results.data

----------------------------------------------------------------------------
(* Properties of a successful return. *)

\* C18: whenever snowflake_connect, snowflake_set_attr, snowflake_bind_param,
\* snowflake_bind_result, snowflake_prepare, snowflake_execute,
\* snowflake_fetch or snowflake_stmt_get_attr returns SF_STATUS_SUCCESS, the
\* error slot of the object it was called on is in the cleared state
C18_SuccessLeavesNoError ==
    (/\ call.op \in {"snowflake_connect", "snowflake_set_attr", "snowflake_bind_param",
                     "snowflake_bind_result", "snowflake_prepare", "snowflake_execute",
                     "snowflake_fetch", "snowflake_stmt_get_attr"}
     /\ call.ret = STATUS_SUCCESS)
        => SlotOf(call.op) = NoError

----------------------------------------------------------------------------
(* Properties of the essentials of snowflake_connect. *)

\* C19: a snowflake_connect on a connection whose account or user is NULL
\* or "" returns SF_STATUS_ERROR with the bad-connection-parameters error on
\* the connection, makes no request and leaves both tokens as they were
C19_ConnectNeedsAccountAndUser ==
    [][(/\ call'.op = "snowflake_connect" /\ call'.ret # NO_RETURN
        /\ (~NonEmpty(conn.account) \/ ~NonEmpty(conn.user))) =>
          /\ call'.ret = STATUS_ERROR
          /\ conn'.error.error_code = ERROR_BAD_CONNECTION_PARAMS
          /\ MsgText(heap', conn'.error) = "Missing essential connection parameters. Either user or account (or both) are missing"
          /\ call'.transport = "unused"
          /\ conn'.token = conn.token
          /\ conn'.master_token = conn.master_token]_vars

\* a connection that had authenticated and then lost its account is
\* refused, its tokens still in place
C19_Witness ==
    /\ call.op = "snowflake_connect" /\ call.ret = STATUS_ERROR
    /\ call.transport = "unused"
    /\ ~NonEmpty(conn.account) /\ NonEmpty(conn.user)
    /\ NonEmpty(conn.token) /\ NonEmpty(conn.master_token)

----------------------------------------------------------------------------
(* Properties of the DML flag. *)

\* 0x3000, 0x3100, 0x3200, 0x3300, 0x3400 and 0x3500
SixDmlIds == {12288, 12544, 12800, 13056, 13312, 13568}

\* C20: after an execute whose response reports success the DML flag is
\* true exactly when the response carries a statementTypeId that is one of
\* the six identifiers of generic DML, INSERT, UPDATE, DELETE, MERGE and
\* multi-table INSERT; it is false for any other identifier and when the
\* identifier is absent
C20_DmlFlag ==
    (/\ call.op = "snowflake_execute" /\ call.transport = "answered"
     /\ call.resp.success = Some(TRUE))
        => (stmt.is_dml <=> (/\ IsSome(call.resp.stmtType)
                             /\ Val(call.resp.stmtType) \in SixDmlIds))

\* a multi-table INSERT was flagged as DML with rows buffered
C20_Witness ==
    /\ call.op = "snowflake_execute" /\ call.ret = STATUS_SUCCESS
    /\ call.resp.stmtType = Some(13568)
    /\ stmt.is_dml
    /\ cJSON_GetArraySize(stmt.raw_results) > 0

----------------------------------------------------------------------------
(* Properties of the string outputs. *)

\* the row the last successful snowflake_fetch delivered
LastFetched == hist.fetched[Len(hist.fetched)]

\* C21: when snowflake_fetch has written a field into a string output of
\* capacity max_length, the length recorded in the binding is the number of
\* characters copied, the smaller of the wire string's length and
\* max_length, and so never exceeds the capacity
C21_RecordedLengthIsCopiedLength ==
    (call.op = "snowflake_fetch" /\ call.ret = STATUS_SUCCESS /\ hist.fetched # <<>>) =>
        \A k \in DOMAIN stmt.results.data :
            (k <= stmt.total_fieldcount /\ stmt.results.data[k].type = "SF_C_TYPE_STRING") =>
                /\ stmt.results.data[k].len
                       = Shorter(Len(LastFetched[k]), stmt.results.data[k].max_length)
                /\ stmt.results.data[k].len <= stmt.results.data[k].max_length

----------------------------------------------------------------------------
(* Properties of the total row count. *)

\* C22: after a snowflake_execute that returned on a successful response,
\* the statement's total row count is the response's "total" when it has
\* one, and otherwise the number of rows taken from the response's rowset
C22_TotalRowCount ==
    (/\ call.op = "snowflake_execute" /\ call.transport = "answered"
     /\ call.ret = STATUS_SUCCESS /\ call.resp.success = Some(TRUE)) =>
        stmt.total_rowcount = IF call.resp.total # None THEN call.resp.total[1]
                              ELSE Len(call.resp.rowset[1])

\* a response whose total differs from the number of rows it carried
C22_Witness ==
    /\ call.op = "snowflake_execute" /\ call.ret = STATUS_SUCCESS
    /\ call.resp.total = Some(7)
    /\ Len(stmt.raw_results.items) = 2
    /\ stmt.total_rowcount = 7

----------------------------------------------------------------------------
(* Properties of snowflake_stmt under concurrent callers. *)

\* C23: when two threads have called snowflake_stmt on the same connection
\* at the same time without a lock, their statements carry distinct
\* sequence numbers and the connection's counter has grown by 2
C23_ConcurrentCreation ==
    (\A t \in Threads : threads[t].pc = "done") =>
        /\ threads[1].seq # threads[2].seq
        /\ conn.sequence_counter = hist.created + 2

----------------------------------------------------------------------------
(* Properties of the buffered result as a whole. *)

\* the response whose rowset was last taken into the row queue
RowSource == Val(hist.source)

\* C24: whenever the row queue is not empty, the DML flag, the column
\* descriptors and the field count are those of the response that supplied
\* the queued rows
C24_RowsMatchTheirResponse ==
    (cJSON_GetArraySize(stmt.raw_results) > 0 /\ IsSome(hist.source)) =>
        /\ stmt.is_dml <=> (/\ IsSome(RowSource.stmtType)
                            /\ Val(RowSource.stmtType) \in SixDmlIds)
        /\ IF IsSome(RowSource.rowtype)
           THEN DescribedBy(stmt, Val(RowSource.rowtype))
           ELSE ~stmt.desc.nonnull

----------------------------------------------------------------------------
(* Properties of a failed snowflake_execute. *)

\* C25: a snowflake_execute that returns SF_STATUS_ERROR leaves the
\* statement's buffered rows, column descriptors, field count, row count
\* and DML flag and the connection's database as they were before the call
C25_FailedExecuteChangesNothing ==
    [][(call'.op = "snowflake_execute" /\ call'.ret = STATUS_ERROR) =>
          /\ stmt'.raw_results = stmt.raw_results
          /\ stmt'.desc = stmt.desc
          /\ stmt'.total_fieldcount = stmt.total_fieldcount
          /\ stmt'.total_rowcount = stmt.total_rowcount
          /\ stmt'.is_dml = stmt.is_dml
          /\ conn'.database = conn.database]_vars

----------------------------------------------------------------------------
(* Properties of the bindings across snowflake_prepare. *)

\* C26: the statement holds exactly the input and output bindings
\* registered since its last successful prepare (or its creation), so a
\* snowflake_execute sends only such input bindings and a snowflake_fetch
\* writes only to such outputs; a snowflake_query that makes its request
\* sends no "bindings" object
C26_PrepareDiscardsBindings ==
    /\ DOMAIN stmt.params.data = DOMAIN hist.inputs
    /\ \A k \in DOMAIN hist.inputs : stmt.params.data[k] = hist.inputs[k]
    /\ DOMAIN stmt.results.data = hist.outputs
    /\ (call.op \in {"snowflake_execute", "snowflake_query"} /\ call.transport # "unused"
        /\ call.body.bindings # None) =>
           \A k \in DOMAIN call.body.bindings[1] :
               /\ k \in DOMAIN hist.inputs
               /\ call.body.bindings[1][k] = ExpectedEntry(hist.inputs[k])
    /\ (call.op = "snowflake_query" /\ call.transport # "unused") =>
           call.body.bindings = None

\* a snowflake_query on a statement that had inputs and outputs bound has
\* made its request
C26_Witness ==
    /\ call.op = "snowflake_query" /\ call.transport = "answered"
    /\ call.ret = STATUS_SUCCESS
    /\ call.body.bindings = None
    /\ hist.dropped
    /\ stmt.results = ALNull

----------------------------------------------------------------------------
(* Properties of the public boundary. *)

\* C27: no sequence of public operations faults: every operation and
\* accessor, also on a null statement or on a statement without bindings,
\* descriptors or buffered rows, returns a status or a value
C27_NoOperationFaults == ~fault

====
